---- MODULE Spec2Model ----
(***************************************************************************)
(* GitDockerfileChangeHandler (freshmaker/handlers/git/dockerfile_change.py) *)
(*                                                                         *)
(* The handler is modelled as NumInvocations invocations that the          *)
(* dispatcher may run one after another or interleaved.  Every invocation  *)
(* has its own position (pc), its argument (event), its local task_id, the *)
(* collaborator calls it has made with their answers (calls), the log      *)
(* records it has emitted (logs) and the way it ended (result).  Each      *)
(* collaborator call is one step; its answer (a value or a raised          *)
(* exception) is chosen nondeterministically.                              *)
(***************************************************************************)
EXTENDS Integers, Sequences, FiniteSets, TLC

VARIABLES pc, event, routed, task_id, calls, logs, result

vars == <<pc, event, routed, task_id, calls, logs, result>>

(* ------------------------------ bounds --------------------------------- *)

\* number of invocations in flight at the same time
NumInvocations == 2

\* the build trigger answers with a task id in 0..MaxTaskId, or with None
MaxTaskId == 1

\* a Krb5Error carries between 0 and MaxPayloadLen args
MaxPayloadLen == 3

Procs == 1..NumInvocations

(* ------------------------------ values --------------------------------- *)

\* Python's None, as the value of task_id (task ids are never negative)
None == -1

TaskIds == 0..MaxTaskId

\* the event classes of freshmaker.events derive from BaseEvent only
Mro(cls) == {cls, "BaseEvent"}

\* the events the dispatcher hands out; the three fields stand for the
\* event's own attributes (container / branch / rev for the Dockerfile event)
Events ==
    { [type |-> "GitDockerfileChangeEvent", container |-> "my-image",
       branch |-> "rhel-8", rev |-> "abc123"],
      [type |-> "GitDockerfileChangeEvent", container |-> "other-image",
       branch |-> "f26", rev |-> "0a1b2c"],
      [type |-> "GitModuleMetadataChangeEvent", container |-> "my-image",
       branch |-> "rhel-8", rev |-> "abc123"],
      [type |-> "GitRPMSpecChangeEvent", container |-> "other-image",
       branch |-> "master", rev |-> "def456"] }

NoEvent == [type |-> "none", container |-> "", branch |-> "", rev |-> ""]

(* ----------------------------- exceptions ------------------------------ *)

NoExc == [cls |-> "none", args |-> <<>>]

PayloadField(k) == IF k = 1 THEN "errcode" ELSE IF k = 2 THEN "errmsg" ELSE "extra"

\* koji.krbV.Krb5Error with an args tuple of n elements
Krb5Error(n) == [cls |-> "Krb5Error", args |-> [k \in 1..n |-> PayloadField(k)]]

\* every other exception: an Exception subclass and one that derives from
\* BaseException only
OtherFailures == { [cls |-> "GenericError", args |-> <<"boom">>],
                   [cls |-> "SystemExit", args |-> <<>>] }

\* what the three collaborators can raise
PolicyFailures == OtherFailures

TriggerFailures == { Krb5Error(n) : n \in 0..MaxPayloadLen } \cup OtherFailures

\* record_build stores the build in the database; it never logs in to Koji,
\* so the Kerberos error is not among its failures
RecordFailures == OtherFailures

IndexError == [cls |-> "IndexError", args |-> <<"tuple index out of range">>]

(* --------------------------- results and logs -------------------------- *)

NoResult == [kind |-> "none", value |-> <<>>, exc |-> NoExc]

\* `return []`
ReturnEmpty == [kind |-> "return", value |-> <<>>, exc |-> NoExc]

\* an exception leaves handle
Propagate(e) == [kind |-> "raise", value |-> <<>>, exc |-> e]

StartMsg == "Start to rebuild docker image %s."
SkipMsg == "Skip rebuild of %s:%s as it's not allowed by configured whitelist/blacklist"
KrbMsg == "Failed to login Koji via Kerberos using GSSAPI. %s"
GenericMsg == "Could not create task to build docker image %s"

LogRec(level, msg, args) == [level |-> level, msg |-> msg, args |-> args]

Call(fn, args, raised, ret, exc) ==
    [fn |-> fn, args |-> args, raised |-> raised, ret |-> ret, exc |-> exc]

(* ------------------------- the handler's pieces ------------------------ *)

\* mutant: the isinstance test names the base class
can_handle_base(ev) == "BaseEvent" \in Mro(ev.type)

\* isinstance(event, GitDockerfileChangeEvent)
can_handle(ev) == "GitDockerfileChangeEvent" \in Mro(ev.type)

\* mutant: the `not` is missing
PolicyAllowsInverted(answer) == ~answer

\* `if not self.allow_build(...)`: the build goes on iff the answer is true
PolicyAllows(answer) == answer

\* self.allow_build('image', event.container, event.branch)
PolicyArgs(i) == <<"image", event[i].container, event[i].branch>>

\* mutant: the event is kept on the handler object, which the invocations
\* share, so the build is triggered for whichever event it holds
BuildArgsShared(i) ==
    LET j == CHOOSE j \in Procs : routed[j] /\ \A k \in Procs : routed[k] => j <= k
    IN <<event[j].container, event[j].branch, event[j].rev>>

\* self.build_container(event.container, event.branch, event.rev)
BuildArgs(i) == <<event[i].container, event[i].branch, event[i].rev>>

\* self.record_build(event, event.container, 'image', task_id)
RecordArgs(i) == <<event[i], event[i].container, "image", task_id[i]>>

\* mutant: `if task_id:`
ShouldRecordTruthy(t) == t # None /\ t # 0

\* `if task_id is not None`
ShouldRecord(t) == t # None

\* mutant: record_build is called after the try statement
GuardedBuildOnly(fn) == fn = "build_container"

\* the statements inside `try:`; allow_build is called before it
Guarded(fn) == fn \in {"build_container", "record_build"}

\* which except clause takes the exception: the Krb5Error clause comes
\* first, the bare clause takes everything else
ExceptClause(e) == IF e.cls = "Krb5Error" THEN "krb" ELSE "bare"

\* mutant: `except Exception:` in place of the bare `except:`
ExceptOutcomeNarrow(e, container) ==
    IF e.cls = "Krb5Error"
    THEN IF Len(e.args) >= 2
         THEN [logs |-> <<[level |-> "exception",
                           msg |-> "Failed to login Koji via Kerberos using GSSAPI. %s",
                           args |-> <<e.args[2]>>]>>,
               result |-> [kind |-> "return", value |-> <<>>,
                           exc |-> [cls |-> "none", args |-> <<>>]]]
         ELSE [logs |-> <<>>,
               result |-> [kind |-> "raise", value |-> <<>>,
                           exc |-> [cls |-> "IndexError",
                                    args |-> <<"tuple index out of range">>]]]
    ELSE IF e.cls = "SystemExit"
    THEN [logs |-> <<>>, result |-> [kind |-> "raise", value |-> <<>>, exc |-> e]]
    ELSE [logs |-> <<[level |-> "exception",
                      msg |-> "Could not create task to build docker image %s",
                      args |-> <<container>>]>>,
          result |-> [kind |-> "return", value |-> <<>>,
                      exc |-> [cls |-> "none", args |-> <<>>]]]

\* the except clauses: the log records emitted and the way handle ends.
\* e.args[1] is evaluated before log.exception is called; on a tuple shorter
\* than two it raises IndexError inside the clause, which no clause catches.
ExceptOutcome(e, container) ==
    IF ExceptClause(e) = "krb"
    THEN IF Len(e.args) >= 2
         THEN [logs |-> <<LogRec("exception", KrbMsg, <<e.args[2]>>)>>,
               result |-> ReturnEmpty]
         ELSE [logs |-> <<>>, result |-> Propagate(IndexError)]
    ELSE [logs |-> <<LogRec("exception", GenericMsg, <<container>>)>>,
          result |-> ReturnEmpty]

\* what a raising collaborator call leads to
RaiseOutcome(fn, e, container) ==
    IF Guarded(fn) THEN ExceptOutcome(e, container)
    ELSE [logs |-> <<>>, result |-> Propagate(e)]

\* mutant: the build is tried again after a failure
AfterExceptRetry == "trigger"

\* where handle goes after an except clause has run: line 57, `return []`
AfterExcept == "done"

(* ------------------------------- Init ---------------------------------- *)

Init ==
    /\ pc = [i \in Procs |-> "idle"]
    /\ event = [i \in Procs |-> NoEvent]
    /\ routed = [i \in Procs |-> FALSE]
    /\ task_id = [i \in Procs |-> None]
    /\ calls = [i \in Procs |-> <<>>]
    /\ logs = [i \in Procs |-> <<>>]
    /\ result = [i \in Procs |-> NoResult]

(* ------------------------------ actions -------------------------------- *)

\* the dispatcher takes an event and asks can_handle; handle is called only
\* when the answer is true
Dispatch(i) ==
    /\ pc[i] = "idle"
    /\ \E ev \in Events :
         /\ event' = [event EXCEPT ![i] = ev]
         /\ routed' = [routed EXCEPT ![i] = can_handle(ev)]
         /\ pc' = [pc EXCEPT ![i] = IF can_handle(ev) THEN "policy" ELSE "done"]
    /\ UNCHANGED <<task_id, calls, logs, result>>

\* a raising call at position `fn`
Raised(i, fn, args, e, sofar) ==
    LET out == RaiseOutcome(fn, e, event[i].container) IN
    /\ calls' = [calls EXCEPT ![i] = Append(@, Call(fn, args, TRUE, None, e))]
    /\ logs' = [logs EXCEPT ![i] = sofar \o out.logs]
    /\ result' = [result EXCEPT ![i] = out.result]
    /\ pc' = [pc EXCEPT ![i] = IF out.result.kind = "raise" THEN "done" ELSE AfterExcept]

\* lines 39-44: the start message, the policy check and the skip
HandlePolicy(i) ==
    /\ pc[i] = "policy"
    /\ LET started == Append(logs[i], LogRec("info", StartMsg, <<event[i].container>>)) IN
       \/ \E answer \in BOOLEAN :
            /\ calls' = [calls EXCEPT ![i] =
                           Append(@, Call("allow_build", PolicyArgs(i), FALSE, answer, NoExc))]
            /\ IF PolicyAllows(answer)
               THEN /\ logs' = [logs EXCEPT ![i] = started]
                    /\ pc' = [pc EXCEPT ![i] = "trigger"]
                    /\ UNCHANGED result
               ELSE /\ logs' = [logs EXCEPT ![i] =
                                  Append(started, LogRec("info", SkipMsg,
                                         <<event[i].container, event[i].branch>>))]
                    /\ result' = [result EXCEPT ![i] = ReturnEmpty]
                    /\ pc' = [pc EXCEPT ![i] = "done"]
       \/ \E e \in PolicyFailures : Raised(i, "allow_build", PolicyArgs(i), e, started)
    /\ UNCHANGED <<event, routed, task_id>>

\* lines 46-49: the build trigger
HandleBuild(i) ==
    /\ pc[i] = "trigger"
    /\ \/ \E t \in TaskIds \cup {None} :
            /\ calls' = [calls EXCEPT ![i] =
                           Append(@, Call("build_container", BuildArgs(i), FALSE, t, NoExc))]
            /\ task_id' = [task_id EXCEPT ![i] = t]
            /\ IF ShouldRecord(t)
               THEN /\ pc' = [pc EXCEPT ![i] = "record"]
                    /\ UNCHANGED result
               ELSE /\ pc' = [pc EXCEPT ![i] = "done"]
                    /\ result' = [result EXCEPT ![i] = ReturnEmpty]
            /\ UNCHANGED logs
       \/ /\ \E e \in TriggerFailures : Raised(i, "build_container", BuildArgs(i), e, logs[i])
          /\ UNCHANGED task_id
    /\ UNCHANGED <<event, routed>>

\* line 50: the record store
HandleRecord(i) ==
    /\ pc[i] = "record"
    /\ \/ /\ calls' = [calls EXCEPT ![i] =
                         Append(@, Call("record_build", RecordArgs(i), FALSE, None, NoExc))]
          /\ result' = [result EXCEPT ![i] = ReturnEmpty]
          /\ pc' = [pc EXCEPT ![i] = "done"]
          /\ UNCHANGED logs
       \/ \E e \in RecordFailures : Raised(i, "record_build", RecordArgs(i), e, logs[i])
    /\ UNCHANGED <<event, routed, task_id>>

\* the invocation is over; the dispatcher goes on to its next event and the
\* invocation's locals are gone
NextEvent(i) ==
    /\ pc[i] = "done"
    /\ pc' = [pc EXCEPT ![i] = "idle"]
    /\ event' = [event EXCEPT ![i] = NoEvent]
    /\ routed' = [routed EXCEPT ![i] = FALSE]
    /\ task_id' = [task_id EXCEPT ![i] = None]
    /\ calls' = [calls EXCEPT ![i] = <<>>]
    /\ logs' = [logs EXCEPT ![i] = <<>>]
    /\ result' = [result EXCEPT ![i] = NoResult]

Next ==
    \E i \in Procs :
       \/ Dispatch(i)
       \/ HandlePolicy(i)
       \/ HandleBuild(i)
       \/ HandleRecord(i)
       \/ NextEvent(i)

Spec == Init /\ [][Next]_vars

(* ---------------------- reading an invocation's record ----------------- *)

Dockerfile(i) == event[i].type = "GitDockerfileChangeEvent"

\* the invocation of handle is over
Ended(i) == pc[i] = "done" /\ routed[i]

CallIdx(i, fn) == { k \in 1..Len(calls[i]) : calls[i][k].fn = fn }

NumCalls(i, fn) == Cardinality(CallIdx(i, fn))

\* the collaborator `fn` was called and returned / raised
ReturnedFrom(i, fn) == \E k \in CallIdx(i, fn) : ~calls[i][k].raised

RaisedFrom(i, fn) == \E k \in CallIdx(i, fn) : calls[i][k].raised

PolicyAnswered(i, answer) ==
    \E k \in CallIdx(i, "allow_build") :
       ~calls[i][k].raised /\ calls[i][k].ret = answer

TriggerReturned(i, t) ==
    \E k \in CallIdx(i, "build_container") :
       ~calls[i][k].raised /\ calls[i][k].ret = t

TriggerRaised(i, e) ==
    \E k \in CallIdx(i, "build_container") :
       calls[i][k].raised /\ calls[i][k].exc = e

RecordedWith(i, args) ==
    \E k \in CallIdx(i, "record_build") : calls[i][k].args = args

Logged(i, level, msg, args) ==
    \E k \in 1..Len(logs[i]) : logs[i][k] = [level |-> level, msg |-> msg, args |-> args]

LoggedMsg(i, msg) == \E k \in 1..Len(logs[i]) : logs[i][k].msg = msg

ReturnedEmpty(i) == result[i].kind = "return" /\ result[i].value = <<>>

(* ------------------------------- claims -------------------------------- *)

\* C1: when the policy checker answers "not allowed", handle calls neither
\* the build trigger nor the record store and returns the empty sequence.
C1_DeniedNoBuild ==
    \A i \in Procs :
       PolicyAnswered(i, FALSE) =>
          /\ NumCalls(i, "build_container") = 0
          /\ NumCalls(i, "record_build") = 0
          /\ pc[i] = "done"
          /\ ReturnedEmpty(i)

C1_Witness ==
    \E i \in Procs : Ended(i) /\ PolicyAnswered(i, FALSE) /\ ReturnedEmpty(i)

\* C2: with the policy allowing and the build trigger returning t, the
\* record store is called exactly once, with (event, event.container,
\* 'image', t), when t is not None and not at all when t is None; handle
\* returns the empty sequence in both cases.
C2_RecordIffTask ==
    \A i \in Procs : \A t \in TaskIds \cup {None} :
       (PolicyAnswered(i, TRUE) /\ TriggerReturned(i, t)) =>
          /\ NumCalls(i, "record_build") <= (IF t # None THEN 1 ELSE 0)
          /\ RecordedWith(i, <<event[i], event[i].container, "image", t>>)
                \/ NumCalls(i, "record_build") = 0
          /\ Ended(i) =>
                /\ NumCalls(i, "record_build") = (IF t # None THEN 1 ELSE 0)
                /\ ReturnedEmpty(i)

C2_Witness ==
    \E i, j \in Procs :
       /\ Ended(i) /\ TriggerReturned(i, 0) /\ NumCalls(i, "record_build") = 1
       /\ Ended(j) /\ TriggerReturned(j, None) /\ NumCalls(j, "record_build") = 0

\* C3 (as claimed): nothing escapes handle - whatever the collaborators do,
\* the policy checker's failures included, every invocation ends by
\* returning the empty sequence, and a failure has been logged.
C3_NothingEscapes ==
    \A i \in Procs :
       Ended(i) =>
          /\ ReturnedEmpty(i)
          /\ (\E k \in 1..Len(calls[i]) : calls[i][k].raised)
                => \E k \in 1..Len(logs[i]) : logs[i][k].level = "exception"

\* C4 (as claimed): when the build trigger raises Krb5Error, whatever its
\* args, handle returns the empty sequence, has logged the Kerberos message
\* with e.args[1], and has not called the record store.
C4_KrbAnyPayload ==
    \A i \in Procs : \A n \in 0..MaxPayloadLen :
       (Ended(i) /\ PolicyAnswered(i, TRUE) /\ TriggerRaised(i, Krb5Error(n))) =>
          /\ ReturnedEmpty(i)
          /\ n >= 2
          /\ Logged(i, "exception", KrbMsg, <<Krb5Error(n).args[2]>>)
          /\ NumCalls(i, "record_build") = 0

\* C5: when the build trigger raises anything but Krb5Error, handle returns
\* the empty sequence, has logged the generic message with the container
\* and not the Kerberos message, and has not called the record store.
C5_OtherFailureGeneric ==
    \A i \in Procs : \A e \in OtherFailures :
       (PolicyAnswered(i, TRUE) /\ TriggerRaised(i, e)) =>
          /\ pc[i] = "done"
          /\ ReturnedEmpty(i)
          /\ Logged(i, "exception", GenericMsg, <<event[i].container>>)
          /\ ~LoggedMsg(i, KrbMsg)
          /\ NumCalls(i, "record_build") = 0

C5_Witness ==
    \E i, j \in Procs :
       /\ Ended(i) /\ TriggerRaised(i, [cls |-> "GenericError", args |-> <<"boom">>])
       /\ Ended(j) /\ TriggerRaised(j, [cls |-> "SystemExit", args |-> <<>>])

\* C6: can_handle answers true exactly for events of the Dockerfile-change
\* type, whatever their field values, and has no side effect: the step that
\* evaluates it calls no collaborator, logs nothing and leaves every other
\* invocation's state alone.
C6_CanHandle ==
    /\ [](\A i \in Procs : pc[i] # "idle" => (routed[i] <=> Dockerfile(i)))
    /\ [][\A i \in Procs :
            (pc[i] = "idle" /\ pc'[i] # "idle") =>
               /\ calls' = calls /\ logs' = logs
               /\ task_id' = task_id /\ result' = result
               /\ \A j \in Procs \ {i} : event'[j] = event[j] /\ routed'[j] = routed[j]]_vars

\* a Dockerfile event and another event with the same field values
C6_Witness ==
    \E i, j \in Procs :
       /\ pc[i] # "idle" /\ Dockerfile(i) /\ routed[i]
       /\ pc[j] # "idle" /\ ~Dockerfile(j) /\ ~routed[j]
       /\ event[i].container = event[j].container
       /\ event[i].branch = event[j].branch
       /\ event[i].rev = event[j].rev

CallOrder == <<"allow_build", "build_container", "record_build">>

\* C7: within one invocation the policy checker is called exactly once and
\* first, the build trigger at most once and only after the policy checker
\* answered "allowed", the record store at most once and only after the
\* build trigger returned a task reference, with that reference; a failure
\* is followed by no further call.
C7_CallsOrdered ==
    \A i \in Procs :
       /\ Len(calls[i]) <= 3
       /\ \A k \in 1..Len(calls[i]) : calls[i][k].fn = CallOrder[k]
       /\ routed[i] /\ pc[i] # "policy" => Len(calls[i]) >= 1
       /\ Len(calls[i]) >= 2 => ~calls[i][1].raised /\ calls[i][1].ret = TRUE
       /\ Len(calls[i]) >= 3 =>
             /\ ~calls[i][2].raised
             /\ calls[i][2].ret # None
             /\ calls[i][3].args[4] = calls[i][2].ret
       /\ \A k \in 1..Len(calls[i]) : calls[i][k].raised => k = Len(calls[i]) /\ pc[i] = "done"

C7_Witness ==
    \E i, j \in Procs :
       /\ Ended(i) /\ Len(calls[i]) = 3 /\ ~calls[i][3].raised
       /\ Ended(j) /\ Len(calls[j]) = 2 /\ calls[j][2].raised

\* the four terminal outcomes
SkippedByPolicy(i) ==
    ReturnedEmpty(i) /\ PolicyAnswered(i, FALSE) /\ NumCalls(i, "build_container") = 0

BuiltAndRecorded(i) ==
    /\ ReturnedEmpty(i)
    /\ \E t \in TaskIds : TriggerReturned(i, t)
    /\ ReturnedFrom(i, "record_build")

BuiltNotRecorded(i) ==
    /\ ReturnedEmpty(i)
    /\ TriggerReturned(i, None)
    /\ NumCalls(i, "record_build") = 0

FailedAndLogged(i) ==
    /\ ReturnedEmpty(i)
    /\ \E k \in 1..Len(calls[i]) : calls[i][k].raised
    /\ \E k \in 1..Len(logs[i]) : logs[i][k].level = "exception"

NumOutcomes(i) ==
    Cardinality({ o \in 1..4 :
                    \/ o = 1 /\ SkippedByPolicy(i)
                    \/ o = 2 /\ BuiltAndRecorded(i)
                    \/ o = 3 /\ BuiltNotRecorded(i)
                    \/ o = 4 /\ FailedAndLogged(i) })

\* C8 (as claimed): every invocation ends in exactly one of skipped-by-
\* policy, built-and-recorded, built-but-not-recorded and failed-and-logged,
\* whatever the policy checker, the build trigger and the record store do.
C8_FourOutcomes ==
    \A i \in Procs : Ended(i) => NumOutcomes(i) = 1

\* the fields of invocation i
Local(i) == <<pc[i], event[i], routed[i], task_id[i], calls[i], logs[i], result[i]>>

\* the result handle has to give for the answers its own calls got
OwnOutcome(i) ==
    LET n == Len(calls[i])
        last == calls[i][n]
    IN IF ~last.raised THEN "return"
       ELSE IF last.fn = "allow_build" THEN "raise"
       ELSE IF last.exc.cls = "Krb5Error" /\ Len(last.exc.args) < 2 THEN "raise"
       ELSE "return"

\* C9: invocations do not share state.  Every call an invocation makes
\* carries its own event's container, branch and revision and its own task
\* reference, its result is decided by the answers to its own calls, and a
\* step of one invocation changes nothing of another.
C9_Reentrant ==
    /\ [](\A i \in Procs : \A k \in 1..Len(calls[i]) :
            /\ calls[i][k].fn = "allow_build" =>
                  calls[i][k].args = <<"image", event[i].container, event[i].branch>>
            /\ calls[i][k].fn = "build_container" =>
                  calls[i][k].args = <<event[i].container, event[i].branch, event[i].rev>>
            /\ calls[i][k].fn = "record_build" =>
                  /\ calls[i][k].args[1] = event[i]
                  /\ calls[i][k].args[2] = event[i].container
                  /\ calls[i][k].args[4] = task_id[i]
                  /\ TriggerReturned(i, task_id[i]))
    /\ [](\A i \in Procs : Ended(i) => result[i].kind = OwnOutcome(i))
    /\ [][\A i, j \in Procs : (i # j /\ Local(i)' # Local(i)) => Local(j)' = Local(j)]_vars

\* two invocations on different events, both past the build trigger, one of
\* them having failed
C9_Witness ==
    \E i, j \in Procs :
       /\ i # j
       /\ event[i].container # event[j].container
       /\ event[i].rev # event[j].rev
       /\ Ended(i) /\ result[i].kind = "raise"
       /\ Ended(j) /\ BuiltAndRecorded(j)

\* C10: when the policy allows, the build trigger returns a task reference
\* and record_build raises, handle returns the empty sequence, has logged
\* the generic message, and makes no further call: the build is triggered
\* and has no record.
C10_RecordFailure ==
    \A i \in Procs :
       RaisedFrom(i, "record_build") =>
          /\ pc[i] = "done"
          /\ ReturnedEmpty(i)
          /\ Logged(i, "exception", GenericMsg, <<event[i].container>>)
          /\ ~LoggedMsg(i, KrbMsg)
          /\ NumCalls(i, "build_container") = 1
          /\ NumCalls(i, "record_build") = 1
          /\ \E t \in TaskIds : TriggerReturned(i, t)
          /\ ~ReturnedFrom(i, "record_build")

C10_Witness ==
    \E i \in Procs : Ended(i) /\ PolicyAnswered(i, TRUE) /\ RaisedFrom(i, "record_build")

====
